---- MODULE Spec2Model ----
(***************************************************************************)
(* Model of the pairing relay (backend/main.py) and of the desktop agent   *)
(* (desktop-agent/agent.py).                                               *)
(*                                                                         *)
(* Both programs are asyncio programs: the code between two awaits runs    *)
(* atomically with respect to the other coroutines of the same process,    *)
(* so one action of the model is one stretch of code between two awaits.   *)
(*                                                                         *)
(* JSON values.  A scalar is a record [t, n, s] (t its JSON type); a JSON  *)
(* object (a Python dict) is a record of its keys and has no field t.      *)
(* A frame on the wire is [text, val]: val is the JSON value the text      *)
(* encodes, text the way it is written ("spaced" for json.dumps' default   *)
(* separators, "compact" for Starlette's send_json, "garbage" for a text   *)
(* that is no JSON).                                                       *)
(***************************************************************************)
EXTENDS Integers, Sequences, FiniteSets, TLC

VARIABLES
    \* ---- backend/main.py: one websocket_endpoint invocation per connection
    pc,                  \* handler position: idle, accept, recv, fwd, done, crashed
    code,                \* the code query parameter of the connection
    client_type,         \* the client_type query parameter of the connection
    data,                \* the local `data` of the handler
    sock,                \* the connection: none, connecting, open, gone (the client
                         \* closed it or lost it), closed (the server closed it)
    sent,                \* frames the client wrote on the connection, oldest first
    nrecv,               \* how many of them the handler has taken off the socket
    out,                 \* frames the backend wrote on the connection
    src,                 \* history: for each frame of out, <<source connection, index in sent>>
    active_connections,  \* ConnectionManager.active_connections, a set of <<key, value>>
    agent_connections,   \* ConnectionManager.agent_connections, a set of <<key, value>>
    \* ---- desktop-agent/agent.py: the AIControlAgent process, client of AgentConn
    apc,                 \* connect(): init, recv, in_cap, closed, failed
    running,             \* self.running
    fps,                 \* self.fps
    system,              \* self.system
    aread,               \* how many frames of out[AgentConn] the agent has read
    cur,                 \* the capability call in progress
    caps,                \* history: the capability calls made, oldest first, and how each ended
    spc,                 \* screen_stream_loop: none, tick, sleep, backoff, cancelled
    wait,                \* the fps value the current sleep was computed from
    nframes              \* how many frames the stream task has captured

relayVars == <<pc, code, client_type, data, sock, sent, nrecv, out, src,
               active_connections, agent_connections>>
agentVars == <<apc, running, fps, system, aread, cur, caps, spc, wait, nframes>>
vars == <<pc, code, client_type, data, sock, sent, nrecv, out, src,
          active_connections, agent_connections,
          apc, running, fps, system, aread, cur, caps, spc, wait, nframes>>

(***************************************************************************)
(* Bounds of the model.                                                    *)
(***************************************************************************)
MaxConns == 3
MaxSends == 2
MaxCloses == 1
MaxCmds == 2
MaxFrames == 1

Conns == 1 .. MaxConns
AgentConn == 1

(***************************************************************************)
(* JSON values                                                             *)
(***************************************************************************)
JInt(k) == [t |-> "int", n |-> k, s |-> ""]
JStr(str) == [t |-> "str", n |-> 0, s |-> str]
JNull == [t |-> "null", n |-> 0, s |-> ""]
JList == [t |-> "list", n |-> 0, s |-> ""]

IsDict(v) == "t" \notin DOMAIN v

\* dict.get(key, default); dict.get(key) is Get(d, key, JNull)
Get(d, key, default) == IF key \in DOMAIN d THEN d[key] ELSE default

\* str(v) inside an f-string
PyStr(v) ==
    IF IsDict(v) THEN "{...}"
    ELSE IF v.t = "null" THEN "None"
    ELSE IF v.t = "int" THEN ToString(v.n)
    ELSE IF v.t = "list" THEN "[]"
    ELSE v.s

(***************************************************************************)
(* Envelopes                                                               *)
(***************************************************************************)
\* the Command Envelope of spec section 3, as it is written there
MouseClick == [type |-> JStr("mouse_click"), params |-> [x |-> JInt(100), y |-> JInt(200)]]
\* the envelope the backend's /api/execute-command builds around an action
Wrapped(action) == [type |-> JStr("command"), command |-> action]
SetFps(v) == [type |-> JStr("set_fps"), fps |-> v]

Spaced(v) == [text |-> "spaced", val |-> v]
Garbage == [text |-> "garbage", val |-> JNull]

\* WebSocket.send_json: json.dumps(data, separators=(",", ":"))
send_json(v) == [text |-> "compact", val |-> v]

\* what the abstract clients of the relay write
ClientFrames == {Spaced(MouseClick), Spaced(SetFps(JInt(10))), Garbage}
Codes == {"demo", "other"}
ClientTypes == {"web", "agent", "desktop"}
\* what send_json does on a connection that is no longer open depends on the
\* ASGI server and the Starlette version: nothing, WebSocketDisconnect, or
\* another exception
SendFailures == {"silent", "disconnect", "error"}

(***************************************************************************)
(* A Python dict as the set of its <<key, value>> items                    *)
(***************************************************************************)
DictHas(d, k) == \E p \in d : p[1] = k
DictGet(d, k) == (CHOOSE p \in d : p[1] = k)[2]
DictDel(d, k) == {p \in d : p[1] # k}
DictSet(d, k, v) == DictDel(d, k) \cup {<<k, v>>}

RECURSIVE SumLen(_, _)
SumLen(f, n) == IF n = 0 THEN 0 ELSE Len(f[n]) + SumLen(f, n - 1)

(***************************************************************************)
(* backend/main.py : ConnectionManager                                     *)
(***************************************************************************)
\* mutant: the handle is added to the code's entries instead of replacing them
connect_web_keeps_prior(d, access_code, websocket) == d \cup {<<access_code, websocket>>}
connect_web(d, access_code, websocket) == DictSet(d, access_code, websocket)
connect_agent(d, access_code, websocket) == DictSet(d, access_code, websocket)
\* mutant: the disconnect of a controller empties the registry
disconnect_web_all(d, access_code) == {}
disconnect_web(d, access_code) ==
    IF DictHas(d, access_code) THEN DictDel(d, access_code) ELSE d
disconnect_agent(d, access_code) ==
    IF DictHas(d, access_code) THEN DictDel(d, access_code) ELSE d

\* the registry a handler registers in and unregisters from
RegistersAsWeb(ct) == ct = "web"
\* mutant: every handler forwards to the agent registry
ForwardsToAgentAlways(ct) == FALSE
\* the registry a handler forwards to
ForwardsToWeb(ct) == ct = "agent"

\* send_to_web / send_to_agent: the connection the message is written on,
\* 0 when the code has no entry
send_to_web(access_code) ==
    IF DictHas(active_connections, access_code)
    THEN DictGet(active_connections, access_code) ELSE 0
\* mutant: send_to_agent looks the code up in active_connections
send_to_agent_in_web_registry(access_code) == send_to_web(access_code)
send_to_agent(access_code) ==
    IF DictHas(agent_connections, access_code)
    THEN DictGet(agent_connections, access_code) ELSE 0
Destination(c) ==
    IF ForwardsToWeb(client_type[c]) THEN send_to_web(code[c]) ELSE send_to_agent(code[c])

\* mutant: the handler wraps what it forwards, as /api/execute-command does
ForwardedWrapped(c) == send_json([type |-> JStr("command"), command |-> data[c]])
\* the frame send_json(message) writes for the handler's data
Forwarded(c) == send_json(data[c])

\* the except WebSocketDisconnect clause of websocket_endpoint
Unregister(c) ==
    IF RegistersAsWeb(client_type[c])
    THEN /\ active_connections' = disconnect_web(active_connections, code[c])
         /\ UNCHANGED agent_connections
    ELSE /\ agent_connections' = disconnect_agent(agent_connections, code[c])
         /\ UNCHANGED active_connections

(***************************************************************************)
(* backend/main.py : websocket_endpoint, one invocation per connection     *)
(***************************************************************************)
\* a client opens /ws?code=k&client_type=ct and the endpoint is entered
\* (connections are taken in order, and as the program never looks into a
\* code, the first one's code is fixed)
Start(c, k, ct) ==
    /\ pc[c] = "idle"
    /\ c = 1 => k = "demo"
    /\ \A b \in Conns : b < c => pc[b] # "idle"
    /\ pc' = [pc EXCEPT ![c] = "accept"]
    /\ code' = [code EXCEPT ![c] = k]
    /\ client_type' = [client_type EXCEPT ![c] = ct]
    /\ sock' = [sock EXCEPT ![c] = "connecting"]
    /\ UNCHANGED <<data, sent, nrecv, out, src, active_connections, agent_connections>>
    /\ UNCHANGED agentVars

\* await websocket.accept() returns and the handle is stored
Accept(c) ==
    /\ pc[c] = "accept"
    /\ sock' = [sock EXCEPT ![c] = IF @ = "connecting" THEN "open" ELSE @]
    /\ IF RegistersAsWeb(client_type[c])
       THEN /\ active_connections' = connect_web(active_connections, code[c], c)
            /\ UNCHANGED agent_connections
       ELSE /\ agent_connections' = connect_agent(agent_connections, code[c], c)
            /\ UNCHANGED active_connections
    /\ pc' = [pc EXCEPT ![c] = "recv"]
    /\ UNCHANGED <<code, client_type, data, sent, nrecv, out, src>>
    /\ UNCHANGED agentVars

\* data = await websocket.receive_json() returns a value
Receive(c) ==
    /\ pc[c] = "recv"
    /\ nrecv[c] < Len(sent[c])
    /\ sent[c][nrecv[c] + 1].text # "garbage"
    /\ data' = [data EXCEPT ![c] = sent[c][nrecv[c] + 1].val]
    /\ nrecv' = [nrecv EXCEPT ![c] = @ + 1]
    /\ pc' = [pc EXCEPT ![c] = "fwd"]
    /\ UNCHANGED <<code, client_type, sock, sent, out, src, active_connections, agent_connections>>
    /\ UNCHANGED agentVars

\* receive_json raises json.JSONDecodeError: no except clause matches, the
\* handler ends and the server closes the connection
ReceiveBadFrame(c) ==
    /\ pc[c] = "recv"
    /\ nrecv[c] < Len(sent[c])
    /\ sent[c][nrecv[c] + 1].text = "garbage"
    /\ nrecv' = [nrecv EXCEPT ![c] = @ + 1]
    /\ pc' = [pc EXCEPT ![c] = "crashed"]
    /\ sock' = [sock EXCEPT ![c] = "closed"]
    /\ UNCHANGED <<code, client_type, data, sent, out, src, active_connections, agent_connections>>
    /\ UNCHANGED agentVars

\* receive_json raises WebSocketDisconnect: the except clause unregisters
ReceiveDisconnect(c) ==
    /\ pc[c] = "recv"
    /\ nrecv[c] = Len(sent[c])
    /\ sock[c] = "gone"
    /\ Unregister(c)
    /\ pc' = [pc EXCEPT ![c] = "done"]
    /\ UNCHANGED <<code, client_type, data, sock, sent, nrecv, out, src>>
    /\ UNCHANGED agentVars

\* send_to_web / send_to_agent finds no entry for the code
ForwardDrop(c) ==
    /\ pc[c] = "fwd"
    /\ Destination(c) = 0
    /\ pc' = [pc EXCEPT ![c] = "recv"]
    /\ data' = [data EXCEPT ![c] = JNull]
    /\ UNCHANGED <<code, client_type, sock, sent, nrecv, out, src,
                   active_connections, agent_connections>>
    /\ UNCHANGED agentVars

\* send_to_web / send_to_agent writes the message on the entry's connection
ForwardSend(c) ==
    /\ pc[c] = "fwd"
    /\ Destination(c) # 0
    /\ sock[Destination(c)] = "open"
    /\ out' = [out EXCEPT ![Destination(c)] = Append(@, Forwarded(c))]
    /\ src' = [src EXCEPT ![Destination(c)] = Append(@, <<c, nrecv[c]>>)]
    /\ pc' = [pc EXCEPT ![c] = "recv"]
    /\ data' = [data EXCEPT ![c] = JNull]
    /\ UNCHANGED <<code, client_type, sock, sent, nrecv,
                   active_connections, agent_connections>>
    /\ UNCHANGED agentVars

\* send_json on an entry whose connection is closed
ForwardFail(c, how) ==
    /\ pc[c] = "fwd"
    /\ Destination(c) # 0
    /\ sock[Destination(c)] # "open"
    /\ CASE how = "silent" ->
              /\ pc' = [pc EXCEPT ![c] = "recv"]
              /\ UNCHANGED <<sock, active_connections, agent_connections>>
         [] how = "disconnect" ->
              /\ Unregister(c)
              /\ pc' = [pc EXCEPT ![c] = "done"]
              /\ sock' = [sock EXCEPT ![c] = "closed"]
         [] OTHER ->
              /\ pc' = [pc EXCEPT ![c] = "crashed"]
              /\ sock' = [sock EXCEPT ![c] = "closed"]
              /\ UNCHANGED <<active_connections, agent_connections>>
    /\ data' = [data EXCEPT ![c] = JNull]
    /\ UNCHANGED <<code, client_type, sent, nrecv, out, src>>
    /\ UNCHANGED agentVars

(***************************************************************************)
(* The clients of the relay                                                *)
(***************************************************************************)
ClientSend(c, f) ==
    /\ sock[c] = "open"
    /\ SumLen(sent, MaxConns) < MaxSends
    /\ sent' = [sent EXCEPT ![c] = Append(@, f)]
    /\ UNCHANGED <<pc, code, client_type, data, sock, nrecv, out, src,
                   active_connections, agent_connections>>
    /\ UNCHANGED agentVars

ClientClose(c) ==
    /\ sock[c] \in {"connecting", "open"}
    /\ Cardinality({b \in Conns : sock[b] = "gone"}) < MaxCloses
    /\ sock' = [sock EXCEPT ![c] = "gone"]
    /\ UNCHANGED <<pc, code, client_type, data, sent, nrecv, out, src,
                   active_connections, agent_connections>>
    /\ UNCHANGED agentVars

InitRelay ==
    /\ pc = [c \in Conns |-> "idle"]
    /\ code = [c \in Conns |-> "demo"]
    /\ client_type = [c \in Conns |-> "web"]
    /\ data = [c \in Conns |-> JNull]
    /\ sock = [c \in Conns |-> "none"]
    /\ sent = [c \in Conns |-> <<>>]
    /\ nrecv = [c \in Conns |-> 0]
    /\ out = [c \in Conns |-> <<>>]
    /\ src = [c \in Conns |-> <<>>]
    /\ active_connections = {}
    /\ agent_connections = {}

InitAgent ==
    /\ apc = "init"
    /\ running = FALSE
    /\ fps = JInt(5)
    /\ system = "Linux"
    /\ aread = 0
    /\ cur = JNull
    /\ caps = <<>>
    /\ spc = "none"
    /\ wait = JNull
    /\ nframes = 0

Init == InitRelay /\ InitAgent

Next ==
    \/ \E c \in Conns, k \in Codes, ct \in ClientTypes : Start(c, k, ct)
    \/ \E c \in Conns : Accept(c)
    \/ \E c \in Conns : Receive(c)
    \/ \E c \in Conns : ReceiveBadFrame(c)
    \/ \E c \in Conns : ReceiveDisconnect(c)
    \/ \E c \in Conns : ForwardDrop(c)
    \/ \E c \in Conns : ForwardSend(c)
    \/ \E c \in Conns, how \in SendFailures : ForwardFail(c, how)
    \/ \E c \in Conns, f \in ClientFrames : ClientSend(c, f)
    \/ \E c \in Conns : ClientClose(c)

Spec == Init /\ [][Next]_vars

(***************************************************************************)
(* desktop-agent/agent.py : execute_command                                *)
(***************************************************************************)
EmptyDict == [k \in {} |-> JNull]
Systems == {"Windows", "Darwin", "Linux"}
CommandKinds == {"mouse_click", "mouse_move", "keyboard_type", "keyboard_press",
                 "open_url", "open_app", "scroll"}

AttributeErrorText == "object has no attribute 'get'"
\* a capability returns, or raises an exception with one of these texts
ExceptionTexts == {"fail-safe triggered", "No such file or directory"}
Outcomes == {"returned"} \cup ExceptionTexts
Failed(text) == [status |-> JStr("error"), message |-> JStr(text)]
Succeeded(text) == [status |-> JStr("success"), message |-> JStr(text)]

\* the capability call each branch of execute_command makes
Call(kind, params, sys) ==
    CASE kind = "mouse_click" ->
           [fn |-> "pyautogui.click", args |-> <<Get(params, "x", JNull), Get(params, "y", JNull)>>]
      [] kind = "mouse_move" ->
           [fn |-> "pyautogui.moveTo", args |-> <<Get(params, "x", JNull), Get(params, "y", JNull)>>]
      [] kind = "keyboard_type" ->
           [fn |-> "pyautogui.write", args |-> <<Get(params, "text", JNull)>>]
      [] kind = "keyboard_press" ->
           [fn |-> "pyautogui.press", args |-> <<Get(params, "key", JNull)>>]
      [] kind = "open_url" ->
           [fn |-> "subprocess.run",
            args |-> IF sys = "Windows" THEN <<JStr("start"), Get(params, "url", JNull)>>
                     ELSE IF sys = "Darwin" THEN <<JStr("open"), Get(params, "url", JNull)>>
                     ELSE <<JStr("xdg-open"), Get(params, "url", JNull)>>]
      [] kind = "open_app" ->
           [fn |-> "subprocess.Popen",
            args |-> IF sys = "Darwin"
                     THEN <<JStr("open"), JStr("-a"), Get(params, "app", JNull)>>
                     ELSE <<Get(params, "app", JNull)>>]
      [] kind = "scroll" ->
           [fn |-> "pyautogui.scroll", args |-> <<Get(params, "amount", JInt(0))>>]

\* the message of the success result of each branch
SuccessMessage(kind, params) ==
    CASE kind = "mouse_click" ->
           "Clicked at (" \o PyStr(Get(params, "x", JNull)) \o ", "
                          \o PyStr(Get(params, "y", JNull)) \o ")"
      [] kind = "mouse_move" ->
           "Moved to (" \o PyStr(Get(params, "x", JNull)) \o ", "
                        \o PyStr(Get(params, "y", JNull)) \o ")"
      [] kind = "keyboard_type" -> "Typed: " \o PyStr(Get(params, "text", JNull))
      [] kind = "keyboard_press" -> "Pressed: " \o PyStr(Get(params, "key", JNull))
      [] kind = "open_url" -> "Opened URL: " \o PyStr(Get(params, "url", JNull))
      [] kind = "open_app" -> "Opened app: " \o PyStr(Get(params, "app", JNull))
      [] kind = "scroll" -> "Scrolled: " \o PyStr(Get(params, "amount", JInt(0)))

\* mutant: no except clause around the capability calls
AfterCallUncaught(ok, outcome) ==
    IF outcome = "returned"
    THEN [step |-> "result", result |-> ok]
    ELSE [step |-> "raise"]
\* the end of execute_command once the capability is over: its return
\* statement, or the except Exception clause
AfterCall(ok, outcome) ==
    IF outcome = "returned"
    THEN [step |-> "result", result |-> ok]
    ELSE [step |-> "result", result |-> Failed(outcome)]

\* command_type is one of the branches of the if/elif chain
Recognized(command_type) ==
    /\ ~IsDict(command_type)
    /\ command_type.t = "str"
    /\ command_type.s \in CommandKinds

\* execute_command up to the capability call.
\*   "raise"  : command_data.get raises outside the try (command_data is no dict)
\*   "result" : a result is returned without any capability call
\*   "call"   : the capability `call` is invoked; `ok` is the result returned if
\*              it returns, and an exception it raises is returned as Failed
execute_command(command_data, sys) ==
    IF ~IsDict(command_data)
    THEN [step |-> "raise"]
    ELSE LET command_type == Get(command_data, "type", JNull)
             params == Get(command_data, "params", EmptyDict)
         IN  IF ~Recognized(command_type)
             THEN [step |-> "result",
                   result |-> Failed("Unknown command type: " \o PyStr(command_type))]
             ELSE IF ~IsDict(params)
             THEN [step |-> "result", result |-> Failed(AttributeErrorText)]
             ELSE [step |-> "call",
                   call |-> Call(command_type.s, params, sys),
                   ok |-> Succeeded(SuccessMessage(command_type.s, params))]

CommandResult(r) == [type |-> JStr("command_result"), result |-> r]
ScreenFrame(n) == [type |-> JStr("screen_frame"), data |-> JStr("jpeg"), timestamp |-> JInt(n)]

\* json.dumps with the default separators
json_dumps(v) == Spaced(v)

(***************************************************************************)
(* desktop-agent/agent.py : connect, the receive loop                      *)
(***************************************************************************)
\* mutant: the agent takes an envelope whose type is a command kind for a command
IsCommandByKind(d) == Recognized(Get(d, "type", JNull))
\* data.get('type') == 'command'
IsCommand(d) == Get(d, "type", JNull) = JStr("command")

\* the frame `async for message in websocket` yields next
Message == out[AgentConn][aread + 1]

\* mutant: commands are dispatched without awaiting the one in progress
AtAsyncForOrBusy == apc \in {"recv", "in_cap"}
\* the loop takes a message only when it is back at the async for: the
\* command before it has been executed and its result sent
AtAsyncFor == apc = "recv"

\* leaving connect(): the finally clause, then the end of the async with
Leave(how) ==
    /\ apc' = how
    /\ running' = FALSE
    /\ spc' = IF spc = "none" THEN "none" ELSE "cancelled"
    /\ sock' = [sock EXCEPT ![AgentConn] = IF @ = "open" THEN "gone" ELSE @]

\* websockets.connect(ws_url) has returned
AgentConnected ==
    /\ apc = "init"
    /\ sock[AgentConn] = "open"
    /\ apc' = "recv"
    /\ running' = TRUE
    /\ spc' = "tick"
    /\ UNCHANGED <<fps, system, aread, cur, caps, wait, nframes>>
    /\ UNCHANGED relayVars

\* websocket.send(json.dumps(envelope)) from the receive loop
SendResult(r) ==
    IF sock[AgentConn] = "open"
    THEN /\ sent' = [sent EXCEPT ![AgentConn] = Append(@, json_dumps(CommandResult(r)))]
         /\ apc' = "recv"
         /\ UNCHANGED <<running, spc, sock>>
    ELSE /\ Leave("closed")
         /\ UNCHANGED sent

\* a message that json.loads cannot parse, or that is no dict, or a command
\* whose payload is no dict: the exception leaves connect() through its
\* outer except Exception
AgentReceiveRaise ==
    /\ AtAsyncFor
    /\ aread < Len(out[AgentConn])
    /\ \/ Message.text = "garbage"
       \/ ~IsDict(Message.val)
       \/ /\ IsCommand(Message.val)
          /\ execute_command(Get(Message.val, "command", JNull), system).step = "raise"
    /\ aread' = aread + 1
    /\ Leave("failed")
    /\ UNCHANGED <<fps, system, cur, caps, wait, nframes>>
    /\ UNCHANGED <<pc, code, client_type, data, sent, nrecv, out, src,
                   active_connections, agent_connections>>

\* a command that execute_command answers without a capability call
AgentReceiveNoCall ==
    /\ AtAsyncFor
    /\ aread < Len(out[AgentConn])
    /\ Message.text # "garbage"
    /\ IsDict(Message.val)
    /\ IsCommand(Message.val)
    /\ execute_command(Get(Message.val, "command", JNull), system).step = "result"
    /\ aread' = aread + 1
    /\ SendResult(execute_command(Get(Message.val, "command", JNull), system).result)
    /\ UNCHANGED <<fps, system, cur, caps, wait, nframes>>
    /\ UNCHANGED <<pc, code, client_type, data, nrecv, out, src,
                   active_connections, agent_connections>>

\* a command whose branch invokes its capability: the call blocks the event loop
AgentReceiveCall ==
    /\ AtAsyncFor
    /\ aread < Len(out[AgentConn])
    /\ Message.text # "garbage"
    /\ IsDict(Message.val)
    /\ IsCommand(Message.val)
    /\ execute_command(Get(Message.val, "command", JNull), system).step = "call"
    /\ aread' = aread + 1
    /\ cur' = execute_command(Get(Message.val, "command", JNull), system)
    /\ caps' = Append(caps, [fn |-> cur'.call.fn, args |-> cur'.call.args, outcome |-> "running"])
    /\ apc' = "in_cap"
    /\ UNCHANGED <<running, fps, system, spc, wait, nframes>>
    /\ UNCHANGED relayVars

\* the capability returns or raises, execute_command ends and its result is sent
CapabilityDone(outcome) ==
    /\ apc = "in_cap"
    /\ IF AfterCall(cur.ok, outcome).step = "raise"
       THEN Leave("failed") /\ UNCHANGED sent
       ELSE SendResult(AfterCall(cur.ok, outcome).result)
    /\ cur' = JNull
    /\ caps' = [caps EXCEPT ![Len(caps)].outcome = outcome]
    /\ UNCHANGED <<fps, system, aread, wait, nframes>>
    /\ UNCHANGED <<pc, code, client_type, data, nrecv, out, src,
                   active_connections, agent_connections>>

\* mutant: the directive's fps is not read and the default is stored
FpsDirectiveDefault(d) == JInt(5)
\* data.get('fps', 5)
FpsDirective(d) == Get(d, "fps", JInt(5))

\* elif data.get('type') == 'set_fps'
AgentReceiveSetFps ==
    /\ AtAsyncFor
    /\ aread < Len(out[AgentConn])
    /\ Message.text # "garbage"
    /\ IsDict(Message.val)
    /\ ~IsCommand(Message.val)
    /\ Get(Message.val, "type", JNull) = JStr("set_fps")
    /\ aread' = aread + 1
    /\ fps' = FpsDirective(Message.val)
    /\ UNCHANGED <<apc, running, system, cur, caps, spc, wait, nframes>>
    /\ UNCHANGED relayVars

\* a dict of any other type: neither branch is taken
AgentReceiveOther ==
    /\ AtAsyncFor
    /\ aread < Len(out[AgentConn])
    /\ Message.text # "garbage"
    /\ IsDict(Message.val)
    /\ ~IsCommand(Message.val)
    /\ Get(Message.val, "type", JNull) # JStr("set_fps")
    /\ aread' = aread + 1
    /\ UNCHANGED <<apc, running, fps, system, cur, caps, spc, wait, nframes>>
    /\ UNCHANGED relayVars

\* the async for ends: the connection is closed and nothing is left to read
AgentReceiveClosed ==
    /\ AtAsyncFor
    /\ aread = Len(out[AgentConn])
    /\ sock[AgentConn] # "open"
    /\ Leave("closed")
    /\ UNCHANGED <<fps, system, aread, cur, caps, wait, nframes>>
    /\ UNCHANGED <<pc, code, client_type, data, sent, nrecv, out, src,
                   active_connections, agent_connections>>

(***************************************************************************)
(* desktop-agent/agent.py : screen_stream_loop                             *)
(***************************************************************************)
\* 1 / self.fps evaluates without an exception
Divides(v) == ~IsDict(v) /\ v.t = "int" /\ v.n # 0

\* mutant: an exception in a pass ends the stream task
TickFailureEndsTask == "ended"
\* except Exception: the error is printed and the task sleeps one second
OnTickFailure == "backoff"

\* one pass of the loop body up to its sleep; the task runs only while the
\* receive loop is suspended at its async for
StreamTick(captured) ==
    /\ spc = "tick"
    /\ running
    /\ AtAsyncFor
    /\ nframes < MaxFrames
    /\ nframes' = nframes + 1
    /\ IF captured /\ sock[AgentConn] = "open"
       THEN /\ sent' = [sent EXCEPT ![AgentConn] = Append(@, json_dumps(ScreenFrame(nframes)))]
            /\ IF Divides(fps)
               THEN spc' = "sleep" /\ wait' = fps
               ELSE spc' = OnTickFailure /\ wait' = JNull
       ELSE /\ spc' = OnTickFailure
            /\ wait' = JNull
            /\ UNCHANGED sent
    /\ UNCHANGED <<apc, running, fps, system, aread, cur, caps>>
    /\ UNCHANGED <<pc, code, client_type, data, sock, nrecv, out, src,
                   active_connections, agent_connections>>

\* asyncio.sleep returns
StreamWake ==
    /\ spc \in {"sleep", "backoff"}
    /\ AtAsyncFor
    /\ spc' = "tick"
    /\ wait' = JNull
    /\ UNCHANGED <<apc, running, fps, system, aread, cur, caps, nframes>>
    /\ UNCHANGED relayVars

(***************************************************************************)
(* The agent alone: the server side of its connection is the environment   *)
(***************************************************************************)
Action(kind, params) == [type |-> JStr(kind), params |-> params]
GoodParams(kind) ==
    CASE kind \in {"mouse_click", "mouse_move"} -> [x |-> JInt(100), y |-> JInt(200)]
      [] kind = "keyboard_type" -> [text |-> JStr("hello")]
      [] kind = "keyboard_press" -> [key |-> JStr("enter")]
      [] kind = "open_url" -> [url |-> JStr("http://localhost")]
      [] kind = "open_app" -> [app |-> JStr("calc")]
      [] kind = "scroll" -> [amount |-> JInt(3)]
IllTypedParams(kind) ==
    CASE kind \in {"mouse_click", "mouse_move"} -> [x |-> JStr("left"), y |-> JInt(200)]
      [] kind = "keyboard_type" -> [text |-> JInt(7)]
      [] kind = "keyboard_press" -> [key |-> JList]
      [] kind = "open_url" -> [url |-> JInt(7)]
      [] kind = "open_app" -> [app |-> JNull]
      [] kind = "scroll" -> [amount |-> JStr("down")]

AgentInputs ==
    {send_json(Wrapped(Action(k, GoodParams(k)))) : k \in CommandKinds}
    \cup {send_json(Wrapped(Action(k, IllTypedParams(k)))) : k \in {"mouse_click", "scroll", "open_app"}}
    \cup {send_json(Wrapped(Action(k, EmptyDict))) : k \in {"mouse_click", "keyboard_type"}}
    \cup {send_json(Wrapped([type |-> JStr("mouse_move")])),
          send_json(Wrapped(Action("keyboard_press", JNull))),
          send_json(Wrapped(Action("dance", EmptyDict))),
          send_json(Wrapped([params |-> EmptyDict])),
          send_json([type |-> JStr("command")]),
          send_json(Wrapped(JStr("mouse_click"))),
          send_json(MouseClick),
          send_json(SetFps(JInt(10))),
          send_json(SetFps(JInt(0))),
          send_json([type |-> JStr("set_fps")]),
          send_json(JList),
          Garbage}

EnvAccept ==
    /\ sock[AgentConn] = "none"
    /\ sock' = [sock EXCEPT ![AgentConn] = "open"]
    /\ UNCHANGED <<pc, code, client_type, data, sent, nrecv, out, src,
                   active_connections, agent_connections>>
    /\ UNCHANGED agentVars

EnvDeliver(f) ==
    /\ sock[AgentConn] = "open"
    /\ Len(out[AgentConn]) < MaxCmds
    /\ out' = [out EXCEPT ![AgentConn] = Append(@, f)]
    /\ UNCHANGED <<pc, code, client_type, data, sock, sent, nrecv, src,
                   active_connections, agent_connections>>
    /\ UNCHANGED agentVars

EnvClose ==
    /\ sock[AgentConn] = "open"
    /\ sock' = [sock EXCEPT ![AgentConn] = "closed"]
    /\ UNCHANGED <<pc, code, client_type, data, sent, nrecv, out, src,
                   active_connections, agent_connections>>
    /\ UNCHANGED agentVars

AgentStep ==
    \/ AgentConnected
    \/ AgentReceiveRaise
    \/ AgentReceiveNoCall
    \/ AgentReceiveCall
    \/ \E outcome \in Outcomes : CapabilityDone(outcome)
    \/ AgentReceiveSetFps
    \/ AgentReceiveOther
    \/ AgentReceiveClosed
    \/ \E captured \in BOOLEAN : StreamTick(captured)
    \/ StreamWake

AgentInit ==
    /\ InitRelay
    /\ apc = "init"
    /\ running = FALSE
    /\ fps = JInt(5)
    /\ system \in Systems
    /\ aread = 0
    /\ cur = JNull
    /\ caps = <<>>
    /\ spc = "none"
    /\ wait = JNull
    /\ nframes = 0

AgentNext ==
    \/ EnvAccept
    \/ \E f \in AgentInputs : EnvDeliver(f)
    \/ EnvClose
    \/ AgentStep

AgentSpec == AgentInit /\ [][AgentNext]_vars

\* the event loop runs the stream task when its sleep is over and the loop
\* is free, and a capability call comes to an end
AgentLiveSpec ==
    /\ AgentInit /\ [][AgentNext]_vars
    /\ WF_vars(StreamWake)
    /\ WF_vars(\E outcome \in Outcomes : CapabilityDone(outcome))

(***************************************************************************)
(* The pair: the relay with the agent as the client of connection          *)
(* AgentConn and one controller, a web client, on connection Controller    *)
(***************************************************************************)
Controller == AgentConn + 1
PairConns == {AgentConn, Controller}
ControllerFrames == {Spaced(Wrapped(Action("mouse_click", GoodParams("mouse_click")))),
                     Spaced(MouseClick),
                     Spaced(Wrapped(Action("dance", EmptyDict))),
                     Spaced([type |-> JStr("command")]),
                     Spaced(SetFps(JInt(10)))}

\* the agent side writes a set_fps envelope on its connection: the scenario
\* of spec section 8 (agent.py itself writes only results and frames)
AgentSideSetFps == Spaced(SetFps(JInt(30)))
AgentSendsSetFps ==
    /\ sock[AgentConn] = "open"
    /\ apc \in {"recv", "in_cap"}
    /\ \A i \in 1 .. Len(sent[AgentConn]) : sent[AgentConn][i] # AgentSideSetFps
    /\ sent' = [sent EXCEPT ![AgentConn] = Append(@, AgentSideSetFps)]
    /\ UNCHANGED <<pc, code, client_type, data, sock, nrecv, out, src,
                   active_connections, agent_connections>>
    /\ UNCHANGED agentVars

PairNext ==
    \/ \E k \in Codes : Start(AgentConn, k, "agent")
    \/ \E k \in Codes : Start(Controller, k, "web")
    \/ \E c \in PairConns : Accept(c)
    \/ \E c \in PairConns : Receive(c)
    \/ \E c \in PairConns : ReceiveDisconnect(c)
    \/ \E c \in PairConns : ForwardDrop(c)
    \/ \E c \in PairConns : ForwardSend(c)
    \/ \E c \in PairConns, how \in SendFailures : ForwardFail(c, how)
    \/ \E f \in ControllerFrames : ClientSend(Controller, f)
    \/ ClientClose(Controller)
    \/ AgentSendsSetFps
    \/ AgentStep

PairSpec == Init /\ [][PairNext]_vars

(***************************************************************************)
(* Properties of the relay (specification Spec)                            *)
(***************************************************************************)
Running(c) == pc[c] \in {"recv", "fwd"}
Registry(c) == IF RegistersAsWeb(client_type[c]) THEN active_connections ELSE agent_connections
Registered(c) == <<code[c], c>> \in Registry(c)
\* c registered, and a later connect with the same code and role tag took
\* its place
Superseded(c) ==
    /\ Running(c)
    /\ \E b \in Conns :
          b # c /\ client_type[b] = client_type[c] /\ <<code[c], b>> \in Registry(c)
\* the step in which handler c writes its data on a connection
Relays(c) == pc[c] = "fwd" /\ pc'[c] = "recv" /\ out' # out

\* C1: in every reachable state each registry holds, for every access code,
\* at most one handle
C1_AtMostOneHandlePerRole ==
    \A k \in Codes :
        /\ Cardinality({p \in active_connections : p[1] = k}) <= 1
        /\ Cardinality({p \in agent_connections : p[1] = k}) <= 1
\* two connects for the same code and role were in flight together and both
\* have registered
C1_Witness ==
    \E a, b \in Conns :
        /\ a # b /\ code[a] = code[b]
        /\ RegistersAsWeb(client_type[a]) = RegistersAsWeb(client_type[b])
        /\ Running(a) /\ Running(b)
        /\ nrecv[a] = 0 /\ nrecv[b] = 0
        /\ Registered(b)

\* C2 (as claimed): once a later connect has taken a connection's place in
\* the registry, nothing read from that connection is forwarded any more
C2_SupersededNotRelayed == [][\A c \in Conns : Relays(c) => ~Superseded(c)]_vars

\* C3: a frame a registered controller's handler forwards while the code's
\* agent entry is an open connection is appended, unmodified, to what that
\* agent is sent; and on every connection the frames it is sent from one
\* source are that source's frames, each at most once and in the order sent
C3_Delivered ==
    \A c \in Conns :
        (/\ pc[c] = "fwd" /\ pc'[c] # "fwd"
         /\ client_type[c] = "web" /\ Registered(c)
         /\ DictHas(agent_connections, code[c])
         /\ sock[DictGet(agent_connections, code[c])] = "open")
        => /\ out' = [out EXCEPT ![DictGet(agent_connections, code[c])] =
                          Append(@, [text |-> "compact", val |-> sent[c][nrecv[c]].val])]
           /\ pc'[c] = "recv"
C3_InOrder ==
    \A d \in Conns : \A i \in 1 .. Len(out[d]) :
        /\ out[d][i].val = sent[src[d][i][1]][src[d][i][2]].val
        /\ \A j \in 1 .. Len(out[d]) :
              (i < j /\ src[d][i][1] = src[d][j][1]) => src[d][i][2] < src[d][j][2]
C3_DeliveredOnceInOrder == [][C3_Delivered]_vars /\ []C3_InOrder
\* an agent has been sent two different frames of one controller
C3_Witness ==
    \E d, c \in Conns :
        /\ client_type[c] = "web" /\ client_type[d] = "agent"
        /\ Len(out[d]) = 2
        /\ src[d][1] = <<c, 1>> /\ src[d][2] = <<c, 2>>
        /\ out[d][1] # out[d][2]

\* C4: a frame a controller's handler forwards while the code has no agent
\* entry is written on no connection, and the handler goes back to
\* receiving with its connection and both registries as they were
C4_Dropped ==
    \A c \in Conns :
        (/\ pc[c] = "fwd" /\ pc'[c] # "fwd"
         /\ ~ForwardsToWeb(client_type[c])
         /\ ~DictHas(agent_connections, code[c]))
        => /\ out' = out
           /\ pc'[c] = "recv"
           /\ sock'[c] = sock[c]
           /\ active_connections' = active_connections
           /\ agent_connections' = agent_connections
C4_NoAgentNoDeliveryNoError == [][C4_Dropped]_vars
\* a registered controller has had two frames forwarded, no agent has ever
\* connected under its code, and it is still open and receiving
C4_Witness ==
    \E c \in Conns :
        /\ client_type[c] = "web" /\ Registered(c) /\ sock[c] = "open"
        /\ nrecv[c] = 2 /\ pc[c] = "recv"
        /\ \A b \in Conns : pc[b] # "idle" => (code[b] # code[c] \/ client_type[b] = "web")
        /\ \A b \in Conns : out[b] = <<>>

\* C7 (as claimed): every handle in the registry is the connection of a
\* handler that is still running
C7_RegistryHoldsRunningHandlers ==
    \A p \in active_connections \cup agent_connections : Running(p[2])

(***************************************************************************)
(* Properties of the agent (specification AgentSpec)                       *)
(***************************************************************************)
IsCommandFrame(f) ==
    f.text # "garbage" /\ IsDict(f.val) /\ Get(f.val, "type", JNull) = JStr("command")
IsResultFrame(f) == Get(f.val, "type", JNull) = JStr("command_result")
\* the command messages the agent has read, and the results it has emitted
CommandsRead == SelectSeq(SubSeq(out[AgentConn], 1, aread), IsCommandFrame)
ResultsEmitted == SelectSeq(sent[AgentConn], IsResultFrame)
\* the results execute_command can return for the payload of a command message
PossibleResults(f) ==
    LET e == execute_command(Get(f.val, "command", JNull), system)
    IN  IF e.step = "raise" THEN {}
        ELSE IF e.step = "result" THEN {e.result}
        ELSE {e.ok} \cup {Failed(x) : x \in ExceptionTexts}

\* C5: the k-th result the agent emits is a result of the k-th command it
\* read; no command is read before the result of the one before it has been
\* emitted, and back at the receive loop every command read has its result
C5_ResultsInCommandOrder ==
    /\ Len(ResultsEmitted) <= Len(CommandsRead)
    /\ Len(CommandsRead) - Len(ResultsEmitted) <= 1
    /\ apc = "recv" => Len(ResultsEmitted) = Len(CommandsRead)
    /\ \A k \in 1 .. Len(ResultsEmitted) :
          ResultsEmitted[k].val.result \in PossibleResults(CommandsRead[k])
\* two commands of different kinds have been executed, through their
\* capabilities, and two different results have been emitted
C5_Witness ==
    /\ Len(ResultsEmitted) = 2
    /\ ResultsEmitted[1] # ResultsEmitted[2]
    /\ PossibleResults(CommandsRead[1]) \cap PossibleResults(CommandsRead[2])
         = {Failed(x) : x \in ExceptionTexts}
    /\ Len(caps) = 2

\* the required parameters of spec section 4.3
RequiredParams(kind) ==
    CASE kind \in {"mouse_click", "mouse_move"} -> {<<"x", "int">>, <<"y", "int">>}
      [] kind = "keyboard_type" -> {<<"text", "str">>}
      [] kind = "keyboard_press" -> {<<"key", "str">>}
      [] kind = "open_url" -> {<<"url", "str">>}
      [] kind = "open_app" -> {<<"app", "str">>}
      [] kind = "scroll" -> {<<"amount", "int">>}
      [] OTHER -> {}
Valid(command_data) ==
    /\ IsDict(command_data)
    /\ Recognized(Get(command_data, "type", JNull))
    /\ IsDict(Get(command_data, "params", JNull))
    /\ \A r \in RequiredParams(command_data.type.s) :
          /\ r[1] \in DOMAIN command_data.params
          /\ ~IsDict(command_data.params[r[1]])
          /\ command_data.params[r[1]].t = r[2]

\* C8 (as claimed): a capability is running only for a command whose
\* required parameters are present and well-typed
C8_InvalidNeverDispatched ==
    apc = "in_cap" => Valid(Get(out[AgentConn][aread].val, "command", JNull))

\* C9 (as claimed): reading a message of type "command" whose payload is
\* missing or is no mapping does not end the agent's session
C9_MalformedDoesNotTerminate ==
    (/\ aread > 0
     /\ IsCommandFrame(out[AgentConn][aread])
     /\ ~IsDict(Get(out[AgentConn][aread].val, "command", JNull)))
    => apc # "failed" /\ running

\* C10: with the connection open, a command of an unrecognized kind is
\* answered by a Failed result naming the kind, and a capability that raises
\* by a Failed result carrying the exception's text; after either the agent
\* is back at its receive loop, running
C10_UnknownKind ==
    (/\ apc = "recv" /\ aread' = aread + 1
     /\ sock[AgentConn] = "open"
     /\ IsCommandFrame(out[AgentConn][aread'])
     /\ IsDict(Get(out[AgentConn][aread'].val, "command", JNull))
     /\ Get(out[AgentConn][aread'].val.command, "type", JNull) = JStr("dance"))
    => /\ sent'[AgentConn] = Append(sent[AgentConn],
              Spaced([type |-> JStr("command_result"),
                      result |-> [status |-> JStr("error"),
                                  message |-> JStr("Unknown command type: dance")]]))
       /\ apc' = "recv" /\ running'
C10_CapabilityRaises ==
    (/\ apc = "in_cap" /\ apc' # "in_cap"
     /\ sock[AgentConn] = "open"
     /\ caps'[Len(caps')].outcome \in ExceptionTexts)
    => /\ sent'[AgentConn] = Append(sent[AgentConn],
              Spaced([type |-> JStr("command_result"),
                      result |-> [status |-> JStr("error"),
                                  message |-> JStr(caps'[Len(caps')].outcome)]]))
       /\ apc' = "recv" /\ running'
C10_FailuresAreResults == [][C10_UnknownKind /\ C10_CapabilityRaises]_vars
\* a capability raised, then a command of an unrecognized kind was read, and
\* the agent has answered both and is receiving
C10_Witness ==
    /\ apc = "recv" /\ running
    /\ Len(caps) = 1 /\ caps[1].outcome \in ExceptionTexts
    /\ Len(ResultsEmitted) = 2
    /\ ResultsEmitted[1].val.result = [status |-> JStr("error"), message |-> JStr(caps[1].outcome)]
    /\ ResultsEmitted[2].val.result.message = JStr("Unknown command type: dance")

(***************************************************************************)
(* Properties of the pair (specification PairSpec)                         *)
(***************************************************************************)
IsWrappedClick(f) ==
    f.val = [type |-> JStr("command"),
             command |-> [type |-> JStr("mouse_click"),
                          params |-> [x |-> JInt(100), y |-> JInt(200)]]]
ClickedResult ==
    [type |-> JStr("command_result"),
     result |-> [status |-> JStr("success"), message |-> JStr("Clicked at (100, 200)")]]

\* C6 (as claimed): once the agent has read the relayed Command Envelope
\* {type: "mouse_click", params: {x: 100, y: 200}}, the click has been invoked
C6_BareEnvelopeExecuted ==
    \A i \in 1 .. aread :
        out[AgentConn][i].val =
            [type |-> JStr("mouse_click"), params |-> [x |-> JInt(100), y |-> JInt(200)]]
        => \E j \in 1 .. Len(caps) : caps[j].fn = "pyautogui.click"

\* C6 (amended): what the agent reads is what the controller sent, and what
\* the controller is sent is what the agent emitted; the agent has invoked
\* the click, with the command's x and y, once for each wrapped mouse_click
\* it has read and for nothing else, and has emitted one result for each
\* command it has finished with: "Clicked at (100, 200)" for a wrapped
\* mouse_click whose capability returned
C6_WrappedCommandExecuted ==
    /\ \A i \in 1 .. Len(out[AgentConn]) :
          /\ src[AgentConn][i][1] = Controller
          /\ out[AgentConn][i].val = sent[Controller][src[AgentConn][i][2]].val
    /\ \A i \in 1 .. Len(out[Controller]) :
          /\ src[Controller][i][1] = AgentConn
          /\ out[Controller][i].val = sent[AgentConn][src[Controller][i][2]].val
    /\ Len(caps) = Len(SelectSeq(SubSeq(out[AgentConn], 1, aread), IsWrappedClick))
    /\ \A j \in 1 .. Len(caps) :
          caps[j].fn = "pyautogui.click" /\ caps[j].args = <<JInt(100), JInt(200)>>
    /\ Len(CommandsRead) - Len(ResultsEmitted) \in {0, 1}
    /\ apc = "recv" => Len(ResultsEmitted) = Len(CommandsRead)
    /\ \A k \in 1 .. Len(ResultsEmitted) :
          IsWrappedClick(CommandsRead[k]) =>
              \/ ResultsEmitted[k].val = ClickedResult
              \/ /\ ResultsEmitted[k].val.result.status = JStr("error")
                 /\ ResultsEmitted[k].val.result.message.s \in ExceptionTexts
\* the controller has been sent the result of its wrapped mouse_click
C6_Witness ==
    /\ code[Controller] = code[AgentConn]
    /\ \E i \in 1 .. Len(out[Controller]) : out[Controller][i].val = ClickedResult

(***************************************************************************)
(* The Frame Pacer and the end of a session (specification PairSpec)       *)
(***************************************************************************)
IsFrameEnvelope(f) == Get(f.val, "type", JNull) = JStr("screen_frame")
\* the Frame Envelopes the stream task has written on the agent's connection
FramesEmitted == SelectSeq(sent[AgentConn], IsFrameEnvelope)

\* C11 (as claimed): in a session whose agent has read a message of its
\* controller, once the relay has handled the disconnect of the controller
\* or of the agent, the stream task emits no frame
C11_PacerCancelledOnDisconnect ==
    [][(/\ code[Controller] = code[AgentConn]
        /\ aread > 0
        /\ pc[Controller] = "done" \/ pc[AgentConn] = "done")
         => Len(FramesEmitted') = Len(FramesEmitted)]_vars

(***************************************************************************)
(* The Frame Pacer's rate (specification AgentSpec)                        *)
(***************************************************************************)
IsFpsDirective(f) ==
    f.text # "garbage" /\ IsDict(f.val) /\ Get(f.val, "type", JNull) = JStr("set_fps")
\* the fps of the last directive among the first n messages, 5 when none
RECURSIVE FpsAfter(_)
FpsAfter(n) ==
    IF n = 0 THEN JInt(5)
    ELSE IF IsFpsDirective(out[AgentConn][n])
         THEN Get(out[AgentConn][n].val, "fps", JInt(5))
         ELSE FpsAfter(n - 1)

\* C12: the stream task's sleep is computed from the fps of the last
\* directive read when the sleep begins (5 when none was read), and a sleep
\* in progress keeps the value it was computed from whatever is read meanwhile
C12_Waits ==
    /\ (spc = "sleep" /\ spc' = "sleep") => wait' = wait
    /\ (spc # "sleep" /\ spc' = "sleep") => wait' = FpsAfter(aread)
C12_SetFpsTakesEffectAtNextWait == [][C12_Waits]_vars /\ [](fps = FpsAfter(aread))
\* a directive was read while a sleep computed from the default was in progress
C12_Witness ==
    /\ spc = "sleep" /\ wait = JInt(5)
    /\ fps = JInt(10)
    /\ IsFpsDirective(out[AgentConn][aread])

(***************************************************************************)
(* The direction of the FPS Directive (specification PairSpec)             *)
(***************************************************************************)
\* C13: nothing the agent's connection is sent was written by the agent
\* side, and self.fps is the fps of the last directive the agent has read
\* (5 when none): it is never the fps of the set_fps envelope the agent
\* side originated
C13_OnlyControllerSetsFps ==
    /\ \A i \in 1 .. Len(out[AgentConn]) : src[AgentConn][i][1] = Controller
    /\ fps = FpsAfter(aread)
    /\ fps # AgentSideSetFps.val.fps
\* the agent side's set_fps envelope has been relayed to the controller and
\* the controller's directive has set the rate
C13_Witness ==
    /\ \E i \in 1 .. Len(out[Controller]) : out[Controller][i].val = AgentSideSetFps.val
    /\ fps = JInt(10)

(***************************************************************************)
(* Isolation of the sessions (specification Spec)                          *)
(***************************************************************************)
EntriesOf(d, k) == {p \in d : p[1] = k}

\* C14: a step of connection c (its connect, a frame it sends, its close,
\* whatever its handler does, a failure of its handler included) leaves the
\* registry entries of every other code as they were, and writes nothing on,
\* and changes neither the connection nor the handler of, a connection that
\* has another code
C14_StepIsolated ==
    \A c \in Conns :
        (pc'[c] # pc[c] \/ sock'[c] # sock[c] \/ sent'[c] # sent[c])
        => /\ \A k \in Codes \ {code'[c]} :
                 /\ EntriesOf(active_connections', k) = EntriesOf(active_connections, k)
                 /\ EntriesOf(agent_connections', k) = EntriesOf(agent_connections, k)
           /\ \A d \in Conns :
                 (pc[d] # "idle" /\ code[d] # code'[c])
                 => /\ out'[d] = out[d]
                    /\ sock'[d] = sock[d]
                    /\ pc'[d] = pc[d]
C14_SessionsIsolated == [][C14_StepIsolated]_vars
\* the handler of a connection of one code has ended, by its disconnect or
\* by an error, and a pair registered under another code has had a frame
\* relayed and is still registered
C14_Witness ==
    \E a, b, d \in Conns :
        /\ code[a] # code[b] /\ code[b] = code[d] /\ b # d
        /\ pc[a] \in {"crashed", "done"}
        /\ Registered(b) /\ Registered(d)
        /\ Len(out[d]) = 1 /\ src[d][1][1] = b

(***************************************************************************)
(* Registration against unregistration (specification Spec)                *)
(***************************************************************************)
\* C15 (as claimed): the disconnect of connection a leaves registered every
\* other connection b that is registered, with a running handler, for the
\* same code with the same role tag
C15_DisconnectKeepsLaterHandle ==
    [][\A a, b \in Conns :
          (/\ a # b
           /\ pc[a] # "done" /\ pc'[a] = "done"
           /\ code[a] = code[b] /\ client_type[a] = client_type[b]
           /\ Running(b) /\ Registered(b))
          => Registered(b)']_vars

(***************************************************************************)
(* A failure of the destination (specification Spec)                       *)
(***************************************************************************)
\* C16 (as claimed): when a handler forwards to an entry whose connection,
\* another one than its own, is no longer open, the handler goes back to
\* receiving with its connection as it was and stays registered if it was
C16_ForwardFailureNotPropagated ==
    [][\A c \in Conns :
          (/\ pc[c] = "fwd" /\ pc'[c] # "fwd"
           /\ Destination(c) # 0 /\ Destination(c) # c
           /\ sock[Destination(c)] # "open")
          => /\ pc'[c] = "recv"
             /\ sock'[c] = sock[c]
             /\ Registered(c)' = Registered(c)]_vars

(***************************************************************************)
(* The direction of routing (specification Spec)                           *)
(***************************************************************************)
\* C17 (as claimed): every frame written on a connection was read from
\* another connection, of the same code, registered in the other registry
C17_RoutedToOppositeRole ==
    \A d \in Conns : \A i \in 1 .. Len(out[d]) :
        /\ src[d][i][1] # d
        /\ code[src[d][i][1]] = code[d]
        /\ RegistersAsWeb(client_type[src[d][i][1]]) # RegistersAsWeb(client_type[d])

(***************************************************************************)
(* The two tasks of the agent (specification AgentSpec)                    *)
(***************************************************************************)
\* C18 (as claimed): while a capability call is in progress, a stream task
\* that is due for its next pass can make it
C18_PacerRunsDuringCapability ==
    (apc = "in_cap" /\ running /\ spc = "tick" /\ nframes < MaxFrames)
    => ENABLED (\E captured \in BOOLEAN : StreamTick(captured))

(***************************************************************************)
(* A failed pass of the stream task (specification AgentLiveSpec)          *)
(***************************************************************************)
\* the stream task has left a pass of its loop by an exception and has not
\* begun the next one
TickFailed == spc \notin {"none", "tick", "sleep", "cancelled"}

\* C19: a pass of the stream task, failed or not, leaves the receive loop
\* where it was and the agent running; and after a failed pass the task is
\* eventually back at the top of its loop with the agent running, unless the
\* agent's connection is no longer open
C19_TickKeepsAgent == nframes' # nframes => (apc' = apc /\ running' = running)
C19_StreamSurvivesTickFailure ==
    /\ [][C19_TickKeepsAgent]_vars
    /\ TickFailed ~> ((spc = "tick" /\ running) \/ sock[AgentConn] # "open")
\* the first pass failed without a frame, and the task is back at the top of
\* its loop on an open connection
C19_Witness ==
    /\ nframes = 1 /\ Len(FramesEmitted) = 0
    /\ spc = "tick" /\ running
    /\ apc = "recv" /\ sock[AgentConn] = "open"

(***************************************************************************)
(* The domain of the rate (specification AgentSpec)                        *)
(***************************************************************************)
\* C20 (as claimed): self.fps is a positive integer in every reachable state
C20_FpsPositiveInteger == ~IsDict(fps) /\ fps.t = "int" /\ fps.n > 0

====
